---- MODULE Spec2Model ----
(***************************************************************************)
(* autogator: the stage-alignment scan of autogator/dataScanner.py.        *)
(*                                                                         *)
(* DataScanner.basic_scan rasters a square region around the stage's       *)
(* position, reads the detector at each cell, keeps a running maximum and  *)
(* finally moves the stage to the position recorded with the maximum.      *)
(* DataScanner.auto_scan runs three such passes, coarse to fine.           *)
(*                                                                         *)
(* Lengths are integers in stage units (for auto_scan one unit is 0.0005,  *)
(* its finest step); sweep distances are even, so that sweep_distance/2.0  *)
(* is exact.  The stage and the detector are drivers outside               *)
(* dataScanner.py: the stage keeps a position and a jog step, the detector *)
(* returns a number.  Every stretch of basic_scan around one driver        *)
(* command is one action; pc is the position in the code.                  *)
(*                                                                         *)
(* Two more programs of the repository are modelled beside the scanner,    *)
(* each with its own variables and specification: the wavelength sweep     *)
(* WavelengthSweepExperiment.run (autogator/ws_experiment.py and           *)
(* examples/experiments.py) as the sequence of its device calls, and the   *)
(* polling loop of motion/state_machine/keyboardTesting.py with a clock    *)
(* in units of 5 ms.                                                       *)
(***************************************************************************)
EXTENDS Integers, Sequences, FiniteSets, TLC

(* ------------------------------ bounds ------------------------------- *)

\* sweep_distance is drawn from {2k : k \in -1..MaxHalfSweep}
MaxHalfSweep == 3
\* step_size is drawn from {2k : k \in 0..MaxHalfStep}
MaxHalfStep == 2
\* detector readings of the unconstrained detector are drawn from -1..MaxReading
MaxReading == 2
\* how many times, in one run, a jog step may overshoot by one unit
MaxSlips == 1
\* active_channels of the sweep is a list without repetition over 1..MaxChannels
MaxChannels == 2
\* the clock of the keyboard test stops at MaxTime
MaxTime == 7

SweepDistances == {2 * k : k \in -1..MaxHalfSweep}
StepSizes == {2 * k : k \in 0..MaxHalfStep}
Readings == -1..MaxReading

\* the stage's position and jog step before the scanner is used
StartStage == [pos |-> <<3, -2>>, jog |-> 7]

VARIABLES
    pc,              \* position in basic_scan / auto_scan
    exc,             \* the exception that ended the call, "" when none
    ret,             \* what basic_scan returned: <<"unset">> until it returns
    sweep_distance,  \* parameter of basic_scan
    step_size,       \* parameter of basic_scan
    max_data,        \* local of basic_scan
    max_data_loc,    \* local of basic_scan: <<0>> is the int 0, <<x, y>> a list
    x_start_place,   \* local of basic_scan
    y_start_place,   \* local of basic_scan
    edge_Num,        \* local of basic_scan
    i,               \* row index of the outer loop
    j,               \* column index of the inner loop
    reading,         \* data[i, j], the reading of the current cell
    moving_down,     \* local of basic_scan
    pos,             \* stage driver: the position of the x and y motors
    jog,             \* stage driver: the jog step
    slips,           \* stage driver: moves that may still end off target
    det,             \* detector driver: how it answers measure()
    calls,           \* history: the stage commands and detector reads of this pass
    max_cell,        \* history: the loop indices (i, j) at the last update of max_data
    sample,          \* history: one measurement of the pass, with cell and stage position
    pass,            \* auto_scan: the number of the pass being run, 0 outside auto_scan
    passes,          \* history: one record per basic_scan call, with the position
                     \* the stage was at (from), the origin, the edge count (-1
                     \* until computed) and the position finally moved to (best)
    wpc,             \* sweep: position in WavelengthSweepExperiment.run
    variant,         \* sweep: which of the two files defines the class
    active_channels, \* sweep: self.active_channels
    trigger_channel, \* sweep: self.trigger_channel
    take_screenshot, \* sweep: self.take_screenshot
    raw,             \* sweep: the keys of the dict raw, in insertion order
    sorted_data,     \* sweep: the keys of the dict sorted_data, in insertion order
    wexc,            \* sweep: the exception that ended run, "" when none
    wlog,            \* sweep, history: the device, analysis and file calls of run
    kpc,             \* keyboard test: position in run / clear
    now,             \* keyboard test: time.time()
    ot,              \* keyboard test: local of run
    done,            \* keyboard test: local of run
    recording,       \* keyboard test: the keyboard module is recording
    qdown,           \* keyboard test: the key 'q' is held down
    events           \* keyboard test, history: recording calls, ticks and the quit

scanVars == <<sweep_distance, step_size, max_data, max_data_loc, x_start_place,
              y_start_place, edge_Num, i, j, reading, moving_down>>
stageVars == <<pos, jog, slips>>
histVars == <<calls, max_cell, sample>>
autoVars == <<pass, passes>>
scannerVars == <<pc, exc, ret, scanVars, stageVars, det, histVars, autoVars>>
sweepVars == <<wpc, variant, active_channels, trigger_channel, take_screenshot, raw,
               sorted_data, wexc, wlog>>
keyVars == <<kpc, now, ot, done, recording, qdown, events>>
vars == <<scannerVars, sweepVars, keyVars>>

(* ------------------------- pure helpers ------------------------------ *)

\* Python's round(a / b) for b > 0: nearest integer, ties to the even one
PyRoundDiv(a, b) ==
    LET q == a \div b
        r == a % b
    IN  IF 2 * r < b THEN q
        ELSE IF 2 * r > b THEN q + 1
        ELSE IF q % 2 = 0 THEN q ELSE q + 1

Abs(n) == IF n < 0 THEN -n ELSE n
MaxOf(a, b) == IF a >= b THEN a ELSE b

\* the int 0 that max_data_loc starts as; max_data_loc[0] on it is a TypeError
IntZero == <<0>>
Subscriptable(v) == Len(v) = 2

(* ------------------------- the drivers ------------------------------- *)

\* motion.get_motor_position(motion.x_mot), motion.get_motor_position(motion.y_mot)
GetMotorPosition(axis) == IF axis = "x" THEN pos[1] ELSE pos[2]

\* motion.go_to_stage_coordinates(x, y): an absolute move reaches its target
GoToStageCoordinates(x, y) == <<x, y>>

\* motion.move_step(axis, direction): one jog step along the axis; while the
\* stage has slips left the step may overshoot by one unit (mechanical slop).
\* The set of <<position, slips>> the step may end in.
MoveStep(axis, direction) ==
    LET d == IF direction = "forward" THEN jog ELSE -jog
        At(e) == IF axis = "x" THEN <<pos[1] + d + e, pos[2]>>
                               ELSE <<pos[1], pos[2] + d + e>>
    IN  {<<At(0), slips>>} \cup
        (IF slips > 0 THEN {<<At(1), slips - 1>>} ELSE {})

\* the height of the detector's peak and the places it may be at
PeakHeight == 30
PeakPlaces == {<<3, -2>>, <<15, -9>>, <<-15, 19>>, <<90, 90>>}

\* oscope.measure(): the readings the detector may return with the stage at p.
\* <<"free">> returns anything, <<"const", v>> always v, <<"peak", x, y>> a
\* signal that falls off with the distance from (x, y) and is 0 far from it.
MeasureValues(p) ==
    IF det[1] = "free" THEN Readings
    ELSE IF det[1] = "const" THEN {det[2]}
    ELSE {MaxOf(0, PeakHeight - MaxOf(Abs(p[1] - det[2]), Abs(p[2] - det[3])))}

(* --------------------------- basic_scan ------------------------------ *)

\* BeginScan as it would be with the region starting at the stage's position
\* instead of being centred on it
BeginScanFromCorner(sweep, step) ==
    /\ pc = "idle"
    /\ sweep_distance' = sweep
    /\ step_size' = step
    /\ max_data' = 0
    /\ max_data_loc' = IntZero
    /\ x_start_place' = GetMotorPosition("x")
    /\ y_start_place' = GetMotorPosition("y")
    /\ calls' = <<>>
    /\ max_cell' = <<>>
    /\ sample' = <<>>
    /\ passes' = Append(passes, [sweep |-> sweep, step |-> step,
                                 from |-> <<GetMotorPosition("x"), GetMotorPosition("y")>>,
                                 origin |-> <<x_start_place', y_start_place'>>,
                                 edge |-> -1,
                                 best |-> <<>>])
    /\ ret' = <<"unset">>
    /\ pc' = "go_to_origin"
    /\ UNCHANGED <<exc, edge_Num, i, j, reading, moving_down, stageVars, det>>

\* lines 26-31: entry; the locals, and the scan origin from the queried position
BeginScan(sweep, step) ==
    /\ pc = "idle"
    /\ sweep_distance' = sweep
    /\ step_size' = step
    /\ max_data' = 0
    /\ max_data_loc' = IntZero
    /\ x_start_place' = GetMotorPosition("x") - (sweep \div 2)
    /\ y_start_place' = GetMotorPosition("y") - (sweep \div 2)
    /\ calls' = <<>>
    /\ max_cell' = <<>>
    /\ sample' = <<>>
    /\ passes' = Append(passes, [sweep |-> sweep, step |-> step,
                                 from |-> <<GetMotorPosition("x"), GetMotorPosition("y")>>,
                                 origin |-> <<x_start_place', y_start_place'>>,
                                 edge |-> -1,
                                 best |-> <<>>])
    /\ ret' = <<"unset">>
    /\ pc' = "go_to_origin"
    /\ UNCHANGED <<exc, edge_Num, i, j, reading, moving_down, stageVars, det>>

\* line 32: move to the scan origin
GoToOrigin ==
    /\ pc = "go_to_origin"
    /\ pos' = GoToStageCoordinates(x_start_place, y_start_place)
    /\ calls' = Append(calls, <<"go_to", x_start_place, y_start_place>>)
    /\ pc' = "set_jog"
    /\ UNCHANGED <<exc, ret, scanVars, jog, slips, det, max_cell, sample, autoVars>>

\* line 35: the jog step becomes step_size
SetJogStep ==
    /\ pc = "set_jog"
    /\ jog' = step_size
    /\ calls' = Append(calls, <<"set_jog", step_size>>)
    /\ pc' = "make_grid"
    /\ UNCHANGED <<exc, ret, scanVars, pos, slips, det, max_cell, sample, autoVars>>

\* lines 37-45: the grid's edge count, the data array, the direction flag
MakeGrid ==
    /\ pc = "make_grid"
    /\ step_size # 0
    /\ PyRoundDiv(sweep_distance, step_size) >= 0
    /\ edge_Num' = PyRoundDiv(sweep_distance, step_size)
    /\ moving_down' = FALSE
    /\ i' = 0
    /\ j' = 0
    /\ passes' = [passes EXCEPT ![Len(passes)].edge = edge_Num']
    /\ pc' = IF edge_Num' > 0 THEN "measure" ELSE "go_to_max"
    /\ UNCHANGED <<exc, ret, sweep_distance, step_size, max_data, max_data_loc,
                   x_start_place, y_start_place, reading, stageVars, det, histVars,
                   pass>>

\* line 37 with step_size = 0: ZeroDivisionError; line 38 with a negative edge
\* count: numpy's ValueError
MakeGridRaises ==
    /\ pc = "make_grid"
    /\ \/ step_size = 0
       \/ step_size # 0 /\ PyRoundDiv(sweep_distance, step_size) < 0
    /\ exc' = IF step_size = 0 THEN "ZeroDivisionError" ELSE "ValueError"
    /\ pc' = "raised"
    /\ UNCHANGED <<ret, scanVars, stageVars, det, histVars, autoVars>>

\* line 49: data[i, j] = oscope.measure().  With mark the measurement is also
\* remembered in sample, which holds at most one measurement of the pass.
Measure(mark) ==
    /\ pc = "measure"
    /\ mark => sample = <<>>
    /\ \E v \in MeasureValues(pos) :
          /\ reading' = v
          /\ sample' = IF mark THEN <<i, j, v, pos[1], pos[2]>> ELSE sample
    /\ calls' = Append(calls, <<"measure">>)
    /\ pc' = "compare"
    /\ UNCHANGED <<exc, ret, sweep_distance, step_size, max_data, max_data_loc,
                   x_start_place, y_start_place, edge_Num, i, j, moving_down,
                   stageVars, det, max_cell, autoVars>>

\* UpdateMax as it would be with >= for >
UpdateMaxOnEqual ==
    /\ pc = "compare"
    /\ IF reading >= max_data
         THEN /\ max_data' = reading
              /\ max_data_loc' = <<GetMotorPosition("x"), GetMotorPosition("y")>>
              /\ max_cell' = <<i, j>>
         ELSE UNCHANGED <<max_data, max_data_loc, max_cell>>
    /\ pc' = "step_col"
    /\ UNCHANGED <<exc, ret, sweep_distance, step_size, x_start_place, y_start_place,
                   edge_Num, i, j, reading, moving_down, stageVars, det, calls,
                   sample, autoVars>>

\* UpdateMax as it would be with the position computed from the loop indices
UpdateMaxFromIndices ==
    /\ pc = "compare"
    /\ IF reading > max_data
         THEN /\ max_data' = reading
              /\ max_data_loc' = <<x_start_place + i * step_size,
                                   y_start_place + j * step_size>>
              /\ max_cell' = <<i, j>>
         ELSE UNCHANGED <<max_data, max_data_loc, max_cell>>
    /\ pc' = "step_col"
    /\ UNCHANGED <<exc, ret, sweep_distance, step_size, x_start_place, y_start_place,
                   edge_Num, i, j, reading, moving_down, stageVars, det, calls,
                   sample, autoVars>>

\* lines 50-52: a reading above max_data replaces it, with the queried position
UpdateMax ==
    /\ pc = "compare"
    /\ IF reading > max_data
         THEN /\ max_data' = reading
              /\ max_data_loc' = <<GetMotorPosition("x"), GetMotorPosition("y")>>
              /\ max_cell' = <<i, j>>
         ELSE UNCHANGED <<max_data, max_data_loc, max_cell>>
    /\ pc' = "step_col"
    /\ UNCHANGED <<exc, ret, sweep_distance, step_size, x_start_place, y_start_place,
                   edge_Num, i, j, reading, moving_down, stageVars, det, calls,
                   sample, autoVars>>

\* lines 54-59 and the inner loop's increment: one step along y after every cell
StepColumn ==
    /\ pc = "step_col"
    /\ LET direction == IF moving_down THEN "backward" ELSE "forward"
       IN  /\ \E m \in MoveStep("y", direction) : pos' = m[1] /\ slips' = m[2]
           /\ calls' = Append(calls, <<"step", "y", direction>>)
    /\ j' = j + 1
    /\ pc' = IF j + 1 < edge_Num THEN "measure" ELSE "end_row"
    /\ UNCHANGED <<exc, ret, sweep_distance, step_size, max_data, max_data_loc,
                   x_start_place, y_start_place, edge_Num, i, reading, moving_down,
                   jog, det, max_cell, sample, autoVars>>

\* EndRow as it would be without the flip of moving_down
EndRowKeepingDirection ==
    /\ pc = "end_row"
    /\ moving_down' = moving_down
    /\ \E m \in MoveStep("x", "forward") : pos' = m[1] /\ slips' = m[2]
    /\ calls' = Append(calls, <<"step", "x", "forward">>)
    /\ i' = i + 1
    /\ j' = 0
    /\ pc' = IF i + 1 < edge_Num THEN "measure" ELSE "go_to_max"
    /\ UNCHANGED <<exc, ret, sweep_distance, step_size, max_data, max_data_loc,
                   x_start_place, y_start_place, edge_Num, reading, jog, det,
                   max_cell, sample, autoVars>>

\* EndRow as it would be if the step along x were left out after the last row
EndRowSkippingLast ==
    /\ pc = "end_row"
    /\ moving_down' = ~moving_down
    /\ IF i + 1 < edge_Num
         THEN /\ \E m \in MoveStep("x", "forward") : pos' = m[1] /\ slips' = m[2]
              /\ calls' = Append(calls, <<"step", "x", "forward">>)
         ELSE UNCHANGED <<pos, slips, calls>>
    /\ i' = i + 1
    /\ j' = 0
    /\ pc' = IF i + 1 < edge_Num THEN "measure" ELSE "go_to_max"
    /\ UNCHANGED <<exc, ret, sweep_distance, step_size, max_data, max_data_loc,
                   x_start_place, y_start_place, edge_Num, reading, jog, det,
                   max_cell, sample, autoVars>>

\* lines 67-72 and the outer loop's increment: flip the direction, step along x
EndRow ==
    /\ pc = "end_row"
    /\ moving_down' = ~moving_down
    /\ \E m \in MoveStep("x", "forward") : pos' = m[1] /\ slips' = m[2]
    /\ calls' = Append(calls, <<"step", "x", "forward">>)
    /\ i' = i + 1
    /\ j' = 0
    /\ pc' = IF i + 1 < edge_Num THEN "measure" ELSE "go_to_max"
    /\ UNCHANGED <<exc, ret, sweep_distance, step_size, max_data, max_data_loc,
                   x_start_place, y_start_place, edge_Num, reading, jog, det,
                   max_cell, sample, autoVars>>

\* GoToMax as it would be with a return of the best value and its position
GoToMaxReturningBest ==
    /\ pc = "go_to_max"
    /\ Subscriptable(max_data_loc)
    /\ pos' = GoToStageCoordinates(max_data_loc[1], max_data_loc[2])
    /\ calls' = Append(calls, <<"go_to", max_data_loc[1], max_data_loc[2]>>)
    /\ passes' = [passes EXCEPT ![Len(passes)].best = max_data_loc]
    /\ ret' = <<"value", max_data, max_data_loc>>
    /\ pc' = "returned"
    /\ UNCHANGED <<exc, scanVars, jog, slips, det, max_cell, sample, pass>>

\* GoToMax as it would be with the jog step put back to what it was
GoToMaxRestoringJog ==
    /\ pc = "go_to_max"
    /\ Subscriptable(max_data_loc)
    /\ pos' = GoToStageCoordinates(max_data_loc[1], max_data_loc[2])
    /\ calls' = Append(calls, <<"go_to", max_data_loc[1], max_data_loc[2]>>)
    /\ passes' = [passes EXCEPT ![Len(passes)].best = max_data_loc]
    /\ jog' = StartStage.jog
    /\ ret' = <<"None">>
    /\ pc' = "returned"
    /\ UNCHANGED <<exc, scanVars, slips, det, max_cell, sample, pass>>

\* lines 74-77: move to the recorded position and return (nothing)
GoToMax ==
    /\ pc = "go_to_max"
    /\ Subscriptable(max_data_loc)
    /\ pos' = GoToStageCoordinates(max_data_loc[1], max_data_loc[2])
    /\ calls' = Append(calls, <<"go_to", max_data_loc[1], max_data_loc[2]>>)
    /\ passes' = [passes EXCEPT ![Len(passes)].best = max_data_loc]
    /\ ret' = <<"None">>
    /\ pc' = "returned"
    /\ UNCHANGED <<exc, scanVars, jog, slips, det, max_cell, sample, pass>>

\* line 74 with max_data_loc still the int 0: max_data_loc[0] is a TypeError
GoToMaxRaises ==
    /\ pc = "go_to_max"
    /\ ~Subscriptable(max_data_loc)
    /\ exc' = "TypeError"
    /\ pc' = "raised"
    /\ UNCHANGED <<ret, scanVars, stageVars, det, histVars, autoVars>>

\* the places of basic_scan at which a driver is called once the scan has its
\* origin: lines 32, 35, 49, 52 (only for a reading above max_data), 55/58,
\* 71, 74 (only when max_data_loc can be subscripted)
AtDriverCall ==
    \/ pc \in {"go_to_origin", "set_jog", "measure", "step_col", "end_row"}
    \/ pc = "compare" /\ reading > max_data
    \/ pc = "go_to_max" /\ Subscriptable(max_data_loc)

\* DriverFails as it would be with a handler that still parks the stage at
\* the best position found so far
DriverFailsThenParks ==
    /\ AtDriverCall
    /\ calls' = Append(calls, <<"fails", pc, pos[1], pos[2]>>)
    /\ exc' = "DriverUnavailable"
    /\ pc' = IF Subscriptable(max_data_loc) /\ pc # "go_to_max"
             THEN "go_to_max" ELSE "raised"
    /\ UNCHANGED <<ret, scanVars, stageVars, det, max_cell, sample, autoVars>>

\* lines 26-77 hold no try: a driver call that raises ends basic_scan there,
\* the exception reaches the caller, the stage is where it was.  The failure
\* is logged with the place in the code and the stage position.
DriverFails ==
    /\ AtDriverCall
    /\ calls' = Append(calls, <<"fails", pc, pos[1], pos[2]>>)
    /\ exc' = "DriverUnavailable"
    /\ pc' = "raised"
    /\ UNCHANGED <<ret, scanVars, stageVars, det, max_cell, sample, autoVars>>

(* ---------------------------- auto_scan ------------------------------ *)

\* lines 16, 19, 22: the three passes, as <<sweep_distance, step_size>>
AutoPasses == <<<<50, 10>>, <<20, 2>>, <<2, 1>>>>

\* lines 16, 19, 22: the call of the next pass
AutoScanPass ==
    /\ pass \in 1..Len(AutoPasses)
    /\ BeginScan(AutoPasses[pass][1], AutoPasses[pass][2])
    /\ UNCHANGED pass

\* lines 17-18, 20-21, 23-24: print the reading and the position after a pass
AutoScanReport ==
    /\ pass \in 1..Len(AutoPasses)
    /\ pc = "returned"
    /\ \E v \in MeasureValues(pos) : TRUE
    /\ pass' = pass + 1
    /\ pc' = IF pass < Len(AutoPasses) THEN "idle" ELSE "auto_done"
    /\ UNCHANGED <<exc, ret, scanVars, stageVars, det, histVars, passes>>

(* ------------------- WavelengthSweepExperiment.run ------------------- *)

\* the lists active_channels may be: no channel twice, at most MaxChannels
ChannelLists ==
    {c \in UNION {[1..n -> 1..MaxChannels] : n \in 0..MaxChannels} :
        \A a, b \in DOMAIN c : a # b => c[a] # c[b]}

InList(ch, list) == \E k \in DOMAIN list : list[k] = ch

\* ws_experiment.py lines 67-92 / experiments.py lines 148-156: the asserts on
\* the sweep rate (ws_experiment.py only; they may fail), the configuration of
\* laser and scope.  In experiments.py configure_scope_measure waits for the
\* scope (line 123) and starts a continuous acquisition (line 127) for the
\* alignment scan that follows.
WsConfigure ==
    /\ wpc = "configure"
    /\ wlog' = IF variant = "examples"
                 THEN wlog \o <<<<"wait_for_device", "">>, <<"acquire", "continuous">>>>
                 ELSE wlog
    /\ wpc' = "acquire"
    /\ UNCHANGED <<variant, active_channels, trigger_channel, take_screenshot, raw,
                   sorted_data, wexc>>

\* ws_experiment.py lines 68-71: one of the asserts fails
WsAssertFails ==
    /\ wpc = "configure"
    /\ variant = "ws_experiment"
    /\ wexc' = "AssertionError"
    /\ wpc' = "raised"
    /\ UNCHANGED <<variant, active_channels, trigger_channel, take_screenshot, raw,
                   sorted_data, wlog>>

\* WsAcquire as it would be with the sweep started before the scope is armed
WsAcquireAfterSweep ==
    /\ wpc = "acquire"
    /\ wlog' = wlog \o <<<<"sweep_wavelength", "">>, <<"acquire", "timeout">>>>
    /\ wpc' = "wait"
    /\ UNCHANGED <<variant, active_channels, trigger_channel, take_screenshot, raw,
                   sorted_data, wexc>>

\* ws_experiment.py line 95 / experiments.py line 159: scope.acquire(timeout=...)
WsAcquire ==
    /\ wpc = "acquire"
    /\ wlog' = Append(wlog, <<"acquire", "timeout">>)
    /\ wpc' = "sweep"
    /\ UNCHANGED <<variant, active_channels, trigger_channel, take_screenshot, raw,
                   sorted_data, wexc>>

\* ws_experiment.py line 98 / experiments.py line 161: laser.sweep_wavelength
WsSweep ==
    /\ wpc = "sweep"
    /\ wlog' = Append(wlog, <<"sweep_wavelength", "">>)
    /\ wpc' = "wait"
    /\ UNCHANGED <<variant, active_channels, trigger_channel, take_screenshot, raw,
                   sorted_data, wexc>>

\* ws_experiment.py lines 101-104 / experiments.py line 164:
\* scope.wait_for_device, and the screenshot of ws_experiment.py
WsWait ==
    /\ wpc = "wait"
    /\ wlog' = IF variant = "ws_experiment" /\ take_screenshot
                 THEN wlog \o <<<<"wait_for_device", "">>, <<"screenshot", "">>>>
                 ELSE Append(wlog, <<"wait_for_device", "">>)
    /\ wpc' = "get_data"
    /\ UNCHANGED <<variant, active_channels, trigger_channel, take_screenshot, raw,
                   sorted_data, wexc>>

\* ws_experiment.py line 107 / experiments.py lines 168-170: the next channel's
\* scope.get_data; after the last one laser.wavelength_logging (108 / 171)
WsGetData ==
    /\ wpc = "get_data"
    /\ IF Len(raw) < Len(active_channels)
         THEN LET ch == active_channels[Len(raw) + 1]
              IN  /\ raw' = Append(raw, ch)
                  /\ wlog' = Append(wlog, <<"get_data", ch>>)
                  /\ wpc' = "get_data"
         ELSE /\ wlog' = Append(wlog, <<"wavelength_logging", "">>)
              /\ wpc' = "analyzer"
              /\ UNCHANGED raw
    /\ UNCHANGED <<variant, active_channels, trigger_channel, take_screenshot,
                   sorted_data, wexc>>

\* ws_experiment.py lines 111-115 / experiments.py lines 174-178: the
\* WavelengthAnalyzer over raw[trigger_channel]; a KeyError without that key
WsAnalyzer ==
    /\ wpc = "analyzer"
    /\ IF InList(trigger_channel, raw)
         THEN /\ wlog' = Append(wlog, <<"WavelengthAnalyzer", trigger_channel>>)
              /\ wpc' = "process"
              /\ UNCHANGED wexc
         ELSE /\ wexc' = "KeyError"
              /\ wpc' = "raised"
              /\ UNCHANGED wlog
    /\ UNCHANGED <<variant, active_channels, trigger_channel, take_screenshot, raw,
                   sorted_data>>

\* ws_experiment.py line 117 / experiments.py lines 180-183: the next channel's
\* analysis.process_data
WsProcess ==
    /\ wpc = "process"
    /\ Len(sorted_data) < Len(active_channels)
    /\ LET ch == active_channels[Len(sorted_data) + 1]
       IN  /\ sorted_data' = Append(sorted_data, ch)
           /\ wlog' = Append(wlog, <<"process_data", ch>>)
    /\ UNCHANGED <<wpc, variant, active_channels, trigger_channel, take_screenshot,
                   raw, wexc>>

\* ws_experiment.py line 119: print(sorted_data[1]), a KeyError without channel
\* 1 (the file output of lines 121-132 is commented out);
\* experiments.py lines 185-212: the output file is written
WsOutput ==
    /\ wpc = "process"
    /\ Len(sorted_data) = Len(active_channels)
    /\ IF variant = "examples"
         THEN /\ wlog' = Append(wlog, <<"write_file", "">>)
              /\ wpc' = "returned"
              /\ UNCHANGED wexc
         ELSE IF InList(1, sorted_data)
         THEN /\ wpc' = "returned"
              /\ UNCHANGED <<wlog, wexc>>
         ELSE /\ wexc' = "KeyError"
              /\ wpc' = "raised"
              /\ UNCHANGED wlog
    /\ UNCHANGED <<variant, active_channels, trigger_channel, take_screenshot, raw,
                   sorted_data>>

(* ------------------------ keyboardTesting.run ------------------------ *)

\* line 46: the .01 s of the timer test, in units of 5 ms
TickPeriod == 2

\* lines 39-43: the state machines, ot, done, keyboard.start_recording
KbStart ==
    /\ kpc = "start"
    /\ ot' = now
    /\ done' = FALSE
    /\ recording' = TRUE
    /\ events' = Append(events, <<"start_recording", now>>)
    /\ kpc' = "loop"
    /\ UNCHANGED <<now, qdown>>

\* line 44: while not done
KbLoop ==
    /\ kpc = "loop"
    /\ kpc' = IF done THEN "clear" ELSE "timer"
    /\ UNCHANGED <<now, ot, done, recording, qdown, events>>

\* KbTimer as it would be without the test of the timer
KbTimerAlwaysDue ==
    /\ kpc = "timer"
    /\ kpc' = "due"
    /\ UNCHANGED <<now, ot, done, recording, qdown, events>>

\* lines 45-46: timer = time.time() - ot; if(timer >= .01)
KbTimer ==
    /\ kpc = "timer"
    /\ kpc' = IF now - ot >= TickPeriod THEN "due" ELSE "loop"
    /\ UNCHANGED <<now, ot, done, recording, qdown, events>>

\* lines 47-48: if keyboard.is_pressed('q'): done = True
KbCheckQuit ==
    /\ kpc = "due"
    /\ IF qdown
         THEN /\ done' = TRUE
              /\ events' = Append(events, <<"quit", now>>)
              /\ kpc' = "loop"
         ELSE /\ kpc' = "motion_sm"
              /\ UNCHANGED <<done, events>>
    /\ UNCHANGED <<now, ot, recording, qdown>>

\* line 50: motion_sm.moore_sm()
KbMotionTick ==
    /\ kpc = "motion_sm"
    /\ events' = Append(events, <<"motion_sm", now>>)
    /\ kpc' = "single_sm"
    /\ UNCHANGED <<now, ot, done, recording, qdown>>

\* lines 51-52: single_sm.moore_sm(); ot = time.time()
KbSingleTick ==
    /\ kpc = "single_sm"
    /\ events' = Append(events, <<"single_sm", now>>)
    /\ kpc' = "set_ot"
    /\ UNCHANGED <<now, ot, done, recording, qdown>>

\* line 52: ot = time.time()
KbSetOt ==
    /\ kpc = "set_ot"
    /\ ot' = now
    /\ kpc' = "loop"
    /\ UNCHANGED <<now, done, recording, qdown, events>>

\* line 53, clear line 29: keystrokes = keyboard.stop_recording()
KbClearStop ==
    /\ kpc = "clear"
    /\ recording' = FALSE
    /\ events' = Append(events, <<"stop_recording", now>>)
    /\ kpc' = "clear_start"
    /\ UNCHANGED <<now, ot, done, qdown>>

\* clear lines 30-36: keyboard.start_recording(), the backspaces
KbClearStart ==
    /\ kpc = "clear_start"
    /\ recording' = TRUE
    /\ events' = Append(events, <<"start_recording", now>>)
    /\ kpc' = "stop"
    /\ UNCHANGED <<now, ot, done, qdown>>

\* line 54: keyboard.stop_recording(), and run returns
KbStop ==
    /\ kpc = "stop"
    /\ recording' = FALSE
    /\ events' = Append(events, <<"stop_recording", now>>)
    /\ kpc' = "returned"
    /\ UNCHANGED <<now, ot, done, qdown>>

\* the clock advances while run is running
KbTimePasses ==
    /\ kpc \notin {"off", "returned"}
    /\ now < MaxTime
    /\ now' = now + 1
    /\ UNCHANGED <<kpc, ot, done, recording, qdown, events>>

\* the user presses or releases 'q' while run is running
KbKey ==
    /\ kpc \notin {"off", "returned"}
    /\ qdown' = ~qdown
    /\ UNCHANGED <<kpc, now, ot, done, recording, events>>

(* ------------------------- specifications ---------------------------- *)

\* a caller's single basic_scan(sweep_distance, step_size)
CallBasicScan ==
    /\ pass = 0
    /\ \E sweep \in SweepDistances, step \in StepSizes : BeginScan(sweep, step)
    /\ UNCHANGED pass

InitLocals ==
    /\ pc = "idle"
    /\ exc = ""
    /\ ret = <<"unset">>
    /\ sweep_distance = 0
    /\ step_size = 0
    /\ max_data = 0
    /\ max_data_loc = IntZero
    /\ x_start_place = 0
    /\ y_start_place = 0
    /\ edge_Num = 0
    /\ i = 0
    /\ j = 0
    /\ reading = 0
    /\ moving_down = FALSE
    /\ pos = StartStage.pos
    /\ jog = StartStage.jog
    /\ slips = MaxSlips
    /\ calls = <<>>
    /\ max_cell = <<>>
    /\ sample = <<>>
    /\ passes = <<>>

\* the sweep experiment is not run
SweepOff ==
    /\ wpc = "off"
    /\ variant = "ws_experiment"
    /\ active_channels = <<>>
    /\ trigger_channel = 1
    /\ take_screenshot = FALSE
    /\ raw = <<>>
    /\ sorted_data = <<>>
    /\ wexc = ""
    /\ wlog = <<>>

\* the keyboard test is not run
KeysOff ==
    /\ kpc = "off"
    /\ now = 0
    /\ ot = 0
    /\ done = FALSE
    /\ recording = FALSE
    /\ qdown = FALSE
    /\ events = <<>>

\* a step of the scanner: the other programs are not running
ScannerOnly == UNCHANGED <<sweepVars, keyVars>>

Init ==
    /\ InitLocals
    /\ pass = 0
    /\ det \in {<<"free">>, <<"const", 1>>}
    /\ SweepOff
    /\ KeysOff

Next ==
    \/ CallBasicScan /\ ScannerOnly
    \/ GoToOrigin /\ ScannerOnly
    \/ SetJogStep /\ ScannerOnly
    \/ MakeGrid /\ ScannerOnly
    \/ MakeGridRaises /\ ScannerOnly
    \/ \E mark \in BOOLEAN : Measure(mark) /\ ScannerOnly
    \/ UpdateMax /\ ScannerOnly
    \/ StepColumn /\ ScannerOnly
    \/ EndRow /\ ScannerOnly
    \/ GoToMax /\ ScannerOnly
    \/ GoToMaxRaises /\ ScannerOnly

Spec == Init /\ [][Next]_vars

InitAuto ==
    /\ InitLocals
    /\ pass = 1
    /\ det \in {<<"peak", p[1], p[2]>> : p \in PeakPlaces} \cup {<<"const", 1>>}
    /\ SweepOff
    /\ KeysOff

NextAuto ==
    \/ AutoScanPass /\ ScannerOnly
    \/ AutoScanReport /\ ScannerOnly
    \/ GoToOrigin /\ ScannerOnly
    \/ SetJogStep /\ ScannerOnly
    \/ MakeGrid /\ ScannerOnly
    \/ Measure(FALSE) /\ ScannerOnly
    \/ UpdateMax /\ ScannerOnly
    \/ StepColumn /\ ScannerOnly
    \/ EndRow /\ ScannerOnly
    \/ GoToMax /\ ScannerOnly
    \/ GoToMaxRaises /\ ScannerOnly

SpecAuto == InitAuto /\ [][NextAuto]_vars

\* a single basic_scan whose driver calls may fail
NextFail ==
    \/ CallBasicScan /\ ScannerOnly
    \/ GoToOrigin /\ ScannerOnly
    \/ SetJogStep /\ ScannerOnly
    \/ MakeGrid /\ ScannerOnly
    \/ MakeGridRaises /\ ScannerOnly
    \/ Measure(FALSE) /\ ScannerOnly
    \/ UpdateMax /\ ScannerOnly
    \/ StepColumn /\ ScannerOnly
    \/ EndRow /\ ScannerOnly
    \/ GoToMax /\ ScannerOnly
    \/ GoToMaxRaises /\ ScannerOnly
    \/ DriverFails /\ ScannerOnly

SpecFail == Init /\ [][NextFail]_vars

\* WavelengthSweepExperiment.run of either file, for the channel lists, trigger
\* channels and screenshot settings an experiment may be constructed with
InitSweep ==
    /\ InitLocals
    /\ pass = 0
    /\ det = <<"free">>
    /\ KeysOff
    /\ wpc = "configure"
    /\ variant \in {"ws_experiment", "examples"}
    /\ active_channels \in ChannelLists
    /\ trigger_channel \in 1..MaxChannels
    /\ take_screenshot \in BOOLEAN
    /\ raw = <<>>
    /\ sorted_data = <<>>
    /\ wexc = ""
    /\ wlog = <<>>

SweepOnly == UNCHANGED <<scannerVars, keyVars>>

NextSweep ==
    \/ WsConfigure /\ SweepOnly
    \/ WsAssertFails /\ SweepOnly
    \/ WsAcquire /\ SweepOnly
    \/ WsSweep /\ SweepOnly
    \/ WsWait /\ SweepOnly
    \/ WsGetData /\ SweepOnly
    \/ WsAnalyzer /\ SweepOnly
    \/ WsProcess /\ SweepOnly
    \/ WsOutput /\ SweepOnly

SpecSweep == InitSweep /\ [][NextSweep]_vars

\* keyboardTesting.run with a clock and a user
InitKeys ==
    /\ InitLocals
    /\ pass = 0
    /\ det = <<"free">>
    /\ SweepOff
    /\ kpc = "start"
    /\ now = 0
    /\ ot = 0
    /\ done = FALSE
    /\ recording = FALSE
    /\ qdown \in BOOLEAN
    /\ events = <<>>

KeysOnly == UNCHANGED <<scannerVars, sweepVars>>

NextKeys ==
    \/ KbStart /\ KeysOnly
    \/ KbLoop /\ KeysOnly
    \/ KbTimer /\ KeysOnly
    \/ KbCheckQuit /\ KeysOnly
    \/ KbMotionTick /\ KeysOnly
    \/ KbSingleTick /\ KeysOnly
    \/ KbSetOt /\ KeysOnly
    \/ KbClearStop /\ KeysOnly
    \/ KbClearStart /\ KeysOnly
    \/ KbStop /\ KeysOnly
    \/ KbTimePasses /\ KeysOnly
    \/ KbKey /\ KeysOnly

SpecKeys == InitKeys /\ [][NextKeys]_vars

\* the steps of run, as against those of the clock and the user
KbProgram ==
    (KbStart \/ KbLoop \/ KbTimer \/ KbCheckQuit \/ KbMotionTick \/ KbSingleTick
        \/ KbSetOt \/ KbClearStop \/ KbClearStart \/ KbStop) /\ KeysOnly

\* the interpreter keeps running run: it is never stopped for ever before a step
SpecKeysFair == SpecKeys /\ WF_vars(KbProgram)

(* ------------------------------ claims ------------------------------- *)

\* the raster of the pass has been run to its end: basic_scan returned, or
\* line 74 raised after the loops
PassOver == pc = "returned" \/ (pc = "raised" /\ exc = "TypeError")

\* the parameters the scan is specified for
ValidParameters ==
    /\ sweep_distance > 0
    /\ step_size > 0
    /\ PyRoundDiv(sweep_distance, step_size) >= 1

LastCall == calls[Len(calls)]
IsGoTo(c, x, y) == c[1] = "go_to" /\ c[2] = x /\ c[3] = y
NumMeasures == Cardinality({k \in DOMAIN calls : calls[k][1] = "measure"})
NumSteps(axis) ==
    Cardinality({k \in DOMAIN calls : calls[k][1] = "step" /\ calls[k][2] = axis})

\* C1: when a pass over a grid of edge >= 1 is over, whatever the detector
\* read, the last stage command was the absolute move to the recorded best
\* position and the stage is there.
C1_ParkedAtBest ==
    (PassOver /\ edge_Num >= 1) =>
        /\ Subscriptable(max_data_loc)
        /\ IsGoTo(LastCall, max_data_loc[1], max_data_loc[2])
        /\ pos = max_data_loc

\* C2: a pass in which no reading was above zero (max_data is still the initial
\* 0) ends without an exception, with the stage moved to the scan origin.
C2_NoReadingAboveZero ==
    (PassOver /\ edge_Num >= 1 /\ max_data = 0) =>
        /\ pc = "returned"
        /\ exc = ""
        /\ IsGoTo(LastCall, x_start_place, y_start_place)
        /\ pos = <<x_start_place, y_start_place>>

\* C3 as claimed: a pass with valid parameters and N = round(sweep_distance /
\* step_size) issues N^2 reads, N^2 - 1 steps along y and N - 1 steps along x.
C3_CommandCounts ==
    (PassOver /\ ValidParameters) =>
        LET N == PyRoundDiv(sweep_distance, step_size)
        IN  /\ NumMeasures = N * N
            /\ NumSteps("y") = N * N - 1
            /\ NumSteps("x") = N - 1

\* C3 as amended: a pass with valid parameters and N = round(sweep_distance /
\* step_size) issues N^2 reads, N^2 steps along y (one after every cell) and N
\* steps along x (one after every row); a 1x1 grid one read and two steps.
C3_CommandCountsAsIssued ==
    (PassOver /\ ValidParameters) =>
        LET N == PyRoundDiv(sweep_distance, step_size)
        IN  /\ NumMeasures = N * N
            /\ NumSteps("y") = N * N
            /\ NumSteps("x") = N
            /\ N = 1 => Len(calls) = 2 + 1 + 2 + (IF pc = "returned" THEN 1 ELSE 0)

C3_Witness == pc = "returned" /\ ValidParameters /\ edge_Num = 3

\* the remembered measurement: its cell, its value, the stage position it was
\* taken at; SampleCompared once lines 50-52 have run for it
SampleCell == <<sample[1], sample[2]>>
SampleValue == sample[3]
SamplePos == <<sample[4], sample[5]>>
SampleCompared ==
    /\ sample # <<>>
    /\ ~(pc = "compare" /\ <<i, j>> = SampleCell)

\* cell a is visited before cell b (rows in order, columns in loop order)
VisitedBefore(a, b) == a[1] < b[1] \/ (a[1] = b[1] /\ a[2] < b[2])

\* C4: the best reading is the greatest reading so far, it is the reading of
\* the cell it was recorded at, and among cells sharing it the first visited
\* keeps it (an equal reading replaces nothing); with a detector that always
\* returns 1 the result is the first cell, value 1, at the position the stage
\* had there.
C4_FirstMaximumWins ==
    /\ SampleCompared =>
          /\ SampleValue > 0 => max_data >= SampleValue
          /\ max_cell = SampleCell => max_data = SampleValue
          /\ (SampleValue > 0 /\ SampleValue = max_data) =>
                (max_cell = SampleCell \/ VisitedBefore(max_cell, SampleCell))
    /\ (PassOver /\ edge_Num >= 1 /\ det = <<"const", 1>>) =>
          /\ max_cell = <<0, 0>>
          /\ max_data = 1
          /\ (sample # <<>> /\ SampleCell = <<0, 0>>) => max_data_loc = SamplePos

C4_Witness ==
    /\ pc = "returned"
    /\ sample # <<>>
    /\ SampleValue = max_data
    /\ VisitedBefore(max_cell, SampleCell)

\* C5: the recorded best position is the stage position at the maximizing
\* measurement (queried before any further step), also where the stage has
\* left the nominal grid, and the final absolute move goes exactly there.
C5_BestPositionAsQueried ==
    (sample # <<>> /\ max_cell = SampleCell) =>
        /\ max_data_loc = SamplePos
        /\ pc = "returned" =>
              /\ IsGoTo(LastCall, SamplePos[1], SamplePos[2])
              /\ pos = SamplePos

C5_Witness ==
    /\ pc = "returned"
    /\ sample # <<>>
    /\ max_cell = SampleCell
    /\ SampleCell[1] > 0
    /\ max_data_loc[1] # x_start_place + max_cell[1] * step_size

\* C6: every step along y has the direction of its row: forward in row 0,
\* backward in row 1, forward in row 2, ...; the row of a step is the number
\* of steps along x issued before it.
C6_DirectionAlternates ==
    PassOver =>
        \A k \in DOMAIN calls :
            (calls[k][1] = "step" /\ calls[k][2] = "y") =>
                LET row == Cardinality({m \in 1..(k - 1) :
                               calls[m][1] = "step" /\ calls[m][2] = "x"})
                IN  calls[k][3] = IF row % 2 = 0 THEN "forward" ELSE "backward"

C6_Witness == pc = "returned" /\ NumSteps("x") = 3 /\ NumSteps("y") = 9

\* auto_scan is over: its last line has run, or an exception left it
AutoOver == pc = "auto_done" \/ pc = "raised"

\* the edge counts of the three passes of auto_scan
AutoEdges == <<5, 10, 2>>

\* pass k of the history has the parameters and the edge count of pass k of
\* auto_scan, and its region is centred on the position pass k - 1 moved to
PassAsSpecified(k) ==
    /\ passes[k].sweep = AutoPasses[k][1]
    /\ passes[k].step = AutoPasses[k][2]
    /\ passes[k].edge = AutoEdges[k]
    /\ k > 1 =>
          /\ 2 * passes[k].origin[1] = 2 * passes[k - 1].best[1] - passes[k].sweep
          /\ 2 * passes[k].origin[2] = 2 * passes[k - 1].best[2] - passes[k].sweep

\* C7: auto_scan runs exactly three passes, (0.025, 0.005), (0.01, 0.001),
\* (0.001, 0.0005) in units of 0.0005, with edge counts 5, 10 and 2, each after
\* the first centred on the position the one before moved the stage to.
C7_ThreePasses ==
    AutoOver =>
        /\ pc = "auto_done"
        /\ Len(passes) = 3
        /\ \A k \in 1..3 : PassAsSpecified(k)

\* what holds of auto_scan short of C7: the passes that were begun are the
\* specified ones, in order, and auto_scan ends normally exactly with three
C7_PassesBegunAsSpecified ==
    /\ Len(passes) <= 3
    /\ \A k \in 1..Len(passes) :
          (k < Len(passes) \/ pc \in {"measure", "returned", "auto_done"}) =>
              PassAsSpecified(k)
    /\ pc = "auto_done" => Len(passes) = 3

InvalidParameters ==
    \/ step_size <= 0
    \/ sweep_distance <= 0
    \/ sweep_distance % step_size # 0

\* C9: a call with invalid parameters issues no stage move and no detector
\* read, and ends with InvalidScanParameters.
C9_InvalidParametersRejected ==
    (pc # "idle" /\ InvalidParameters) =>
        /\ calls = <<>>
        /\ pc \in {"returned", "raised"} => exc = "InvalidScanParameters"

\* the record of the pass that is running
ThisPass == passes[Len(passes)]

\* C10: the scan origin of a pass is the position the stage was at when the
\* pass began (where auto_scan's pass before left it) minus sweep_distance/2 on
\* each axis, and the move to it and the setting of the jog step to step_size
\* are the two commands before the first measurement, taken at the origin.
C10_OriginAndJogBeforeFirstRead ==
    (pc \notin {"idle", "auto_done"}) =>
        /\ 2 * x_start_place = 2 * ThisPass.from[1] - sweep_distance
        /\ 2 * y_start_place = 2 * ThisPass.from[2] - sweep_distance
        /\ ThisPass.from = IF Len(passes) = 1 THEN StartStage.pos
                           ELSE passes[Len(passes) - 1].best
        /\ (pc = "measure" \/ NumMeasures >= 1) =>
              /\ IsGoTo(calls[1], x_start_place, y_start_place)
              /\ calls[2][1] = "set_jog" /\ calls[2][2] = step_size
              /\ NumMeasures >= 1 => calls[3][1] = "measure"
              /\ jog = step_size
        /\ (pc = "measure" /\ NumMeasures = 0) =>
              pos = <<x_start_place, y_start_place>>

C10_Witness ==
    /\ pass = 2
    /\ NumMeasures = 1
    /\ ThisPass.from # StartStage.pos

\* the entries of calls that log a failed driver call
Failures == {k \in DOMAIN calls : calls[k][1] = "fails"}

\* C11: a driver call that fails during basic_scan ends it with the driver's
\* exception: the failed call is the last entry of the pass (no retry, no
\* recovery move, no move to a best position), nothing is returned and the
\* stage is where it was when the call failed.
C11_FailureSurfacedInPlace ==
    /\ \A k \in Failures :
          /\ k = Len(calls)
          /\ pc = "raised"
          /\ exc = "DriverUnavailable"
          /\ ret = <<"unset">>
          /\ pos = <<calls[k][3], calls[k][4]>>
    /\ exc = "DriverUnavailable" => Failures # {}

C11_Witness ==
    /\ Failures # {}
    /\ NumMeasures >= 2
    /\ Subscriptable(max_data_loc)
    /\ pos # max_data_loc

\* a pass has returned to its caller (auto_scan may have gone on to its report)
PassReturned ==
    \/ pc \in {"returned", "auto_done"}
    \/ pc = "idle" /\ passes # <<>>

\* C13: on return from a pass, and from auto_scan, the stage's jog step is the
\* step_size of the last pass run and not the value it had before the scan.
C13_JogStepLeftChanged ==
    /\ PassReturned =>
          /\ jog = passes[Len(passes)].step
          /\ jog # StartStage.jog
    /\ pc = "auto_done" => jog = AutoPasses[Len(AutoPasses)][2]

C13_Witness == pc = "auto_done" /\ jog = 1 /\ Len(passes) = 3

\* the stage has made every step exactly
IdealStage == slips = MaxSlips

\* d is one of the offsets 0, step_size, ..., (N - 1) * step_size
OnGridOffset(d, N) == \E a \in 0..(N - 1) : d = a * step_size

\* C14: with an ideal stage and valid parameters every measurement is taken at
\* a grid point origin + (a * step_size, b * step_size), 0 <= a, b < N.
C14_MeasuredOnGrid ==
    (IdealStage /\ ValidParameters /\ sample # <<>>) =>
        LET N == PyRoundDiv(sweep_distance, step_size)
        IN  /\ OnGridOffset(SamplePos[1] - x_start_place, N)
            /\ OnGridOffset(SamplePos[2] - y_start_place, N)

(* ---- the sweep experiment ---- *)

\* the places in wlog of the calls of one name
WsCalls(name) == {k \in DOMAIN wlog : wlog[k][1] = name}

\* the call at place k of wlog arms the triggered acquisition
Armed(k) == wlog[k][1] = "acquire" /\ wlog[k][2] = "timeout"

\* the call at place k of wlog is call name for channel ch
ChannelCall(k, name, ch) == wlog[k][1] = name /\ wlog[k][2] = ch

\* C12: in WavelengthSweepExperiment.run the acquisition is armed before the
\* laser sweep is started; before any get_data there is a wait_for_device that
\* comes after the sweep; every active channel's data is fetched before the
\* wavelength analysis; the output file is written only after process_data of
\* every active channel; and a run that returns has made these calls.
C12_DeviceCallOrder ==
    /\ \A s \in WsCalls("sweep_wavelength") : \E a \in 1..(s - 1) : Armed(a)
    /\ \A g \in WsCalls("get_data") :
          \E w \in WsCalls("wait_for_device") :
              /\ w < g
              /\ \E s \in WsCalls("sweep_wavelength") : s < w
    /\ \A z \in WsCalls("WavelengthAnalyzer") \cup WsCalls("process_data") :
          \A c \in DOMAIN active_channels :
              \E g \in 1..(z - 1) : ChannelCall(g, "get_data", active_channels[c])
    /\ \A p \in WsCalls("process_data") :
          \E z \in WsCalls("WavelengthAnalyzer") : z < p
    /\ \A f \in WsCalls("write_file") :
          \A c \in DOMAIN active_channels :
              \E q \in 1..(f - 1) : ChannelCall(q, "process_data", active_channels[c])
    /\ wpc = "returned" =>
          /\ WsCalls("sweep_wavelength") # {}
          /\ WsCalls("WavelengthAnalyzer") # {}
          /\ Len(raw) = Len(active_channels)
          /\ Len(sorted_data) = Len(active_channels)
          /\ variant = "examples" => WsCalls("write_file") # {}

\* a run of examples/experiments.py over two channels has written its file
C12_Witness ==
    /\ wpc = "returned"
    /\ variant = "examples"
    /\ Len(active_channels) = MaxChannels
    /\ WsCalls("write_file") # {}
    /\ WsCalls("get_data") # {}

(* ---- the keyboard test ---- *)

IsRecordingCall(e) == e[1] \in {"start_recording", "stop_recording"}

RecordingCalls == SelectSeq(events, IsRecordingCall)

KbEvents(name) == {k \in DOMAIN events : events[k][1] = name}

\* the ticks come in pairs motion_sm, single_sm
TicksTogether ==
    /\ \A k \in KbEvents("motion_sm") :
          IF k < Len(events) THEN events[k + 1][1] = "single_sm"
                             ELSE kpc = "single_sm"
    /\ \A k \in KbEvents("single_sm") : k > 1 /\ events[k - 1][1] = "motion_sm"

\* a pair of ticks begins TickPeriod or more after run began and after the
\* pair before it ended
TicksApart ==
    \A l \in KbEvents("motion_sm") :
        /\ events[l][2] - events[1][2] >= TickPeriod
        /\ \A k \in KbEvents("single_sm") :
              k < l => events[l][2] - events[k][2] >= TickPeriod

\* after 'q' was seen there is no tick, and the loop is being left
QuitIsFinal ==
    /\ \A k \in KbEvents("quit") :
          /\ done
          /\ \A l \in (k + 1)..Len(events) : IsRecordingCall(events[l])
    /\ done => (/\ KbEvents("quit") # {}
                /\ kpc \in {"loop", "clear", "clear_start", "stop", "returned"})

\* start, stop, start, stop; stopped when run has returned
RecordingAlternates ==
    /\ Len(RecordingCalls) <= 4
    /\ \A k \in DOMAIN RecordingCalls :
          RecordingCalls[k][1] = IF k % 2 = 1 THEN "start_recording"
                                              ELSE "stop_recording"
    /\ recording = (Len(RecordingCalls) % 2 = 1)
    /\ kpc = "returned" => (Len(RecordingCalls) = 4 /\ ~recording)
    /\ kpc \in {"clear", "clear_start", "stop", "returned"} => done

\* C15: in keyboardTesting.run motion_sm and single_sm are ticked together and
\* only 10 ms or more after the previous tick; once 'q' is seen pressed at a
\* due tick no state machine is ticked again and the loop terminates; the
\* recording calls alternate start, stop, start, stop, so that recording is
\* stopped when run returns.
C15_TicksAndQuit ==
    /\ [](TicksTogether /\ TicksApart /\ QuitIsFinal /\ RecordingAlternates)
    /\ (done ~> kpc = "returned")

\* run has returned after two pairs of ticks and a quit
C15_Witness ==
    /\ kpc = "returned"
    /\ Cardinality(KbEvents("single_sm")) >= 2
    /\ KbEvents("quit") # {}
    /\ ~recording

====
